---- MODULE Spec2Model ----
(***************************************************************************)
(* QuillImageResizer (quill-image-resizer/src/index.ts): the controller    *)
(* that selects an image of a Quill editor, keeps an overlay with a resize *)
(* handle and a delete button on it, and resizes the image while the       *)
(* handle is dragged.  One action per DOM / Quill event; an action runs    *)
(* every listener the event is dispatched to, from first to last line,     *)
(* and an uncaught TypeError ends the listener where it is raised.         *)
(***************************************************************************)
EXTENDS Integers, Sequences, FiniteSets, TLC

\* ---------------------------------------------------------------- bounds
\* the largest width a drag is let to ask for
MaxDim == 500
\* the most 'mousedown' events on a handle in one run
MaxDowns == 2

\* ------------------------------------------------------ the environment
\* the images of the document, and the value that stands for null
Images == {"A", "B"}
NoImage == "null"
\* the value that stands for null where an element of the overlay is expected
Null == 0
\* width, height and inline display style the images are loaded with
LoadWidth == [i \in Images |-> IF i = "A" THEN 400 ELSE 30]
LoadHeight == [i \in Images |-> IF i = "A" THEN 300 ELSE 40]
LoadDisplay == [i \in Images |-> IF i = "A" THEN "" ELSE "inline"]
\* the content of the editor when the module is constructed: text and embeds
InitDoc == <<"t", "A", "t", "B">>
\* clientX of the pointer events, scrollTop values of the editor root
DownXs == {450}
MoveXs == {0, 550}
\* clientY of the pointer events
DownYs == {200}
MoveYs == {250}
\* the images another actor deletes from the document
Removable == {"A"}
\* the sizes an image can be loaded with: an image that is not loaded yet or
\* is broken has width and height 0, a style can leave one of the two at 0
LoadSizes == {<<400, 300>>, <<30, 40>>, <<0, 0>>, <<0, 40>>, <<40, 0>>, <<5, 5>>}
ScrollTops == {0, 7}
\* this.quill.root.getBoundingClientRect(): the root's rectangle does not
\* move when its content scrolls
ContainerRect == [top |-> 20, left |-> 8]

\* ------------------------------------------------------------- numbers
\* A JavaScript number: an exact fraction n/d (d > 0), NaN, or +Infinity.
Fin(n, d) == [k |-> "fin", n |-> n, d |-> d]
NaN == [k |-> "nan", n |-> 0, d |-> 1]
Inf == [k |-> "inf", n |-> 0, d |-> 1]
Int2Num(i) == Fin(i, 1)

\* startHeight / startWidth on two non-negative integers
Div(a, b) ==
  IF b # 0 THEN Fin(a, b)
  ELSE IF a = 0 THEN NaN ELSE Inf

\* i * x for an integer i > 0
Mul(i, x) == IF x.k = "fin" THEN Fin(i * x.n, x.d) ELSE x

\* x < i; every comparison with NaN is false
Lt(x, i) == x.k = "fin" /\ x.n < i * x.d

\* Math.max on integers
Max(a, b) == IF a >= b THEN a ELSE b

\* the conversion of a number to the unsigned long of HTMLImageElement.width
\* and .height: NaN and the infinities give 0, a fraction is truncated (the
\* reduction modulo 2^32 never acts: no value here is negative or above MaxDim
\* times the largest load-time ratio)
ToUint32(x) == IF x.k = "fin" THEN x.n \div x.d ELSE 0

\* the minimum dimension of lines 141, 145, 146
MinDim == 10

VARIABLES
  overlay,        \* this.overlay: an overlay element, or Null
  selectedImage,  \* this.selectedImage: an image, or NoImage
  resizerHandle,  \* this.resizerHandle: the handle of an overlay, or Null
  deleteButton,   \* this.deleteButton: the button of an overlay, or Null
  isResizing,     \* this.isResizing
  domOverlays,    \* the overlay elements that are children of root.parentElement
  ovStyle,        \* the inline top/left/width/height of this.overlay
  mousedownL,     \* the handles that carry the 'mousedown' listener
  clickL,         \* the delete buttons that carry the 'click' listener
  docL,           \* the onMouseMove/onMouseUp closure pairs on document, in order
  listeners,      \* root 'click'/'scroll', quill 'editor-blur'/'text-change'
  img,            \* the image elements: width, height, attributes, style
  doc,            \* the content of the editor
  scrollTop,      \* scrollTop of the editor root
  options,        \* the options Quill passes to the constructor
  selSize,        \* history: width and height selectedImage had when it was
                  \* selected, NoSize when none is; NotRecorded throughout a
                  \* behaviour whose initial state does not ask for it
  downs,          \* the number of 'mousedown' events on a handle so far
  last            \* the last event: its name, argument, and what its listeners did

vars == <<overlay, selectedImage, resizerHandle, deleteButton, isResizing,
          domOverlays, ovStyle, mousedownL, clickL, docL, listeners, img, doc,
          scrollTop, options, selSize, downs, last>>

\* The state the listeners work on, as one record, so that a listener is an
\* operator from state to state and a call sequence is a composition.
\* threw: a listener of the event being dispatched raised an exception;
\* writes: the (image, width, height) assignments of lines 148-149 made by
\* the event, with the start size of the session that made them;
\* created: the number of overlay elements the event created.
St ==
  [overlay |-> overlay, selectedImage |-> selectedImage,
   resizerHandle |-> resizerHandle, deleteButton |-> deleteButton,
   isResizing |-> isResizing, domOverlays |-> domOverlays, ovStyle |-> ovStyle,
   mousedownL |-> mousedownL, clickL |-> clickL, docL |-> docL,
   listeners |-> listeners, img |-> img, doc |-> doc, scrollTop |-> scrollTop,
   threw |-> FALSE, writes |-> <<>>, created |-> 0]

NoSize == <<0, 0>>
NotRecorded == <<-1, -1>>

\* the style of an overlay element that was just created
NoStyle == [top |-> <<>>, left |-> <<>>, width |-> <<>>, height |-> <<>>]

\* `${n}px`
Px(n) == <<n, "px">>

InDoc(s, i) == \E p \in 1..Len(s.doc) : s.doc[p] = i

\* position of i in the document, 1-based
Pos(s, i) == CHOOSE p \in 1..Len(s.doc) : s.doc[p] = i

RECURSIVE HeightAbove(_, _)
\* the layout: the images are stacked, each below the ones before it
HeightAbove(s, p) ==
  IF p = 0 THEN 0
  ELSE HeightAbove(s, p - 1) +
       (IF s.doc[p] \in Images THEN s.img[s.doc[p]].height ELSE 0)

\* img.getBoundingClientRect(): zeros for an element that is not rendered
ImgRect(s, i) ==
  IF InDoc(s, i)
  THEN [top |-> ContainerRect.top + HeightAbove(s, Pos(s, i) - 1) - s.scrollTop,
        left |-> ContainerRect.left,
        width |-> s.img[i].width, height |-> s.img[i].height]
  ELSE [top |-> 0, left |-> 0, width |-> 0, height |-> 0]

\* updateOverlayPosition with the image's rectangle taken as it is
updateOverlayPosition_Viewport(s) ==
  IF s.selectedImage = NoImage \/ s.overlay = Null THEN s
  ELSE LET rect == ImgRect(s, s.selectedImage)
       IN [s EXCEPT !.ovStyle =
             [top |-> Px(rect.top), left |-> Px(rect.left),
              width |-> Px(rect.width), height |-> Px(rect.height)]]

updateOverlayPosition(s) ==
  IF s.selectedImage = NoImage \/ s.overlay = Null THEN s
  ELSE LET rect == ImgRect(s, s.selectedImage)
           containerRect == ContainerRect
       IN [s EXCEPT !.ovStyle =
             [top |-> Px(rect.top - containerRect.top),
              left |-> Px(rect.left - containerRect.left),
              width |-> Px(rect.width),
              height |-> Px(rect.height)]]

\* removeOverlay without the test of line 195: null.parentElement throws
removeOverlay_Unchecked(s) ==
  IF s.overlay = Null THEN [s EXCEPT !.threw = TRUE]
  ELSE LET s1 == [s EXCEPT
                    !.mousedownL = IF s.resizerHandle # Null
                                   THEN @ \ {s.resizerHandle} ELSE @,
                    !.clickL = IF s.deleteButton # Null
                               THEN @ \ {s.deleteButton} ELSE @,
                    !.domOverlays = @ \ {s.overlay}]
           s2 == [s1 EXCEPT !.overlay = Null, !.resizerHandle = Null,
                            !.deleteButton = Null, !.ovStyle = NoStyle]
           s3 == IF s2.selectedImage # NoImage
                 THEN [s2 EXCEPT !.img[s2.selectedImage].draggable = "absent"]
                 ELSE s2
       IN [s3 EXCEPT !.selectedImage = NoImage]

\* removeOverlay without its last line
removeOverlay_KeepSelection(s) ==
  LET s1 == IF s.overlay # Null /\ s.overlay \in s.domOverlays
            THEN [s EXCEPT
                    !.mousedownL = IF s.resizerHandle # Null
                                   THEN @ \ {s.resizerHandle} ELSE @,
                    !.clickL = IF s.deleteButton # Null
                               THEN @ \ {s.deleteButton} ELSE @,
                    !.domOverlays = @ \ {s.overlay}]
            ELSE s
      s2 == [s1 EXCEPT !.overlay = Null, !.resizerHandle = Null,
                       !.deleteButton = Null, !.ovStyle = NoStyle]
  IN IF s2.selectedImage # NoImage
     THEN [s2 EXCEPT !.img[s2.selectedImage].draggable = "absent"]
     ELSE s2

removeOverlay(s) ==
  LET s1 == IF s.overlay # Null /\ s.overlay \in s.domOverlays
            THEN [s EXCEPT
                    !.mousedownL = IF s.resizerHandle # Null
                                   THEN @ \ {s.resizerHandle} ELSE @,
                    !.clickL = IF s.deleteButton # Null
                               THEN @ \ {s.deleteButton} ELSE @,
                    !.domOverlays = @ \ {s.overlay}]
            ELSE s
      s2 == [s1 EXCEPT !.overlay = Null, !.resizerHandle = Null,
                       !.deleteButton = Null, !.ovStyle = NoStyle]
      s3 == IF s2.selectedImage # NoImage
            THEN [s2 EXCEPT !.img[s2.selectedImage].draggable = "absent"]
            ELSE s2
  IN [s3 EXCEPT !.selectedImage = NoImage]

\* document.createElement('div'): an element that is not in the document
NewElement(s) ==
  CHOOSE e \in 1..(Cardinality(s.domOverlays) + 1) : e \notin s.domOverlays

createOverlay(s) ==
  LET e == NewElement(s)
  IN [s EXCEPT !.overlay = e, !.ovStyle = NoStyle,
               !.domOverlays = @ \cup {e}, !.created = @ + 1]

addResizeHandle(s) ==
  IF s.overlay = Null THEN s
  ELSE [s EXCEPT !.resizerHandle = s.overlay,
                 !.mousedownL = @ \cup {s.overlay}]

addDeleteButton(s) ==
  IF s.overlay = Null THEN s
  ELSE [s EXCEPT !.deleteButton = s.overlay,
                 !.clickL = @ \cup {s.overlay}]

\* selectImage without the test of lines 71-74
selectImage_NoShortcut(s, i) ==
  LET s1 == [removeOverlay(s) EXCEPT !.selectedImage = i]
      s2 == addDeleteButton(addResizeHandle(
              updateOverlayPosition(createOverlay(s1))))
  IN [s2 EXCEPT !.img[i].draggable = "false"]

\* selectImage without the removeOverlay() of line 76
selectImage_NoRemove(s, i) ==
  IF s.selectedImage = i THEN updateOverlayPosition(s)
  ELSE LET s1 == [s EXCEPT !.selectedImage = i]
           s2 == addDeleteButton(addResizeHandle(
                   updateOverlayPosition(createOverlay(s1))))
       IN [s2 EXCEPT !.img[i].draggable = "false"]

selectImage(s, i) ==
  IF s.selectedImage = i THEN updateOverlayPosition(s)
  ELSE LET s1 == [removeOverlay(s) EXCEPT !.selectedImage = i]
           s2 == addDeleteButton(addResizeHandle(
                   updateOverlayPosition(createOverlay(s1))))
       IN [s2 EXCEPT !.img[i].draggable = "false"]

\* target: an image (tagName 'IMG'), or "other" for any other element of the
\* root.  The overlay is a child of root.parentElement, not of the root, so
\* no target of a click on the root is contained in the overlay.
handleEditorClick(s, target) ==
  IF target \in Images THEN selectImage(s, target)
  ELSE IF s.overlay # Null THEN removeOverlay(s)
  ELSE s

\* handleTextChange without the test of isResizing
handleTextChange_Unguarded(s) == removeOverlay(s)

handleTextChange(s) ==
  IF ~s.isResizing THEN removeOverlay(s) ELSE s

\* quill emits 'text-change' to the handlers registered with quill.on
EmitTextChange(s) ==
  IF s.listeners.textChange THEN handleTextChange(s) ELSE s

\* quill.deleteText(index, length): remove the range, then emit text-change
deleteText(s, index, length) ==
  LET d == s.doc
      nd == SubSeq(d, 1, index) \o SubSeq(d, index + length + 1, Len(d))
  IN EmitTextChange([s EXCEPT !.doc = nd])

\* deleteImage with the 1-based position where the index is expected
deleteImage_OneBased(s) ==
  LET s1 == IF s.selectedImage # NoImage /\ InDoc(s, s.selectedImage)
            THEN deleteText(s, Pos(s, s.selectedImage), 1)
            ELSE s
  IN removeOverlay(s1)

\* deleteImage without the test of line 228: quill.getIndex(null) throws
deleteImage_NoBlotCheck(s) ==
  IF s.selectedImage # NoImage /\ ~InDoc(s, s.selectedImage)
  THEN [s EXCEPT !.threw = TRUE]
  ELSE LET s1 == IF s.selectedImage # NoImage
                 THEN deleteText(s, Pos(s, s.selectedImage) - 1, 1)
                 ELSE s
       IN removeOverlay(s1)

\* deleteImage without the removeOverlay() of line 233
deleteImage_NoCleanup(s) ==
  IF s.selectedImage # NoImage /\ InDoc(s, s.selectedImage)
  THEN deleteText(s, Pos(s, s.selectedImage) - 1, 1)
  ELSE s

deleteImage(s) ==
  LET s1 == IF s.selectedImage # NoImage /\ InDoc(s, s.selectedImage)
            THEN deleteText(s, Pos(s, s.selectedImage) - 1, 1)
            ELSE s
  IN removeOverlay(s1)

\* updateImageBlotDimensions with the two values exchanged
updateImageBlotDimensions_Swapped(s) ==
  IF s.selectedImage = NoImage THEN s
  ELSE IF InDoc(s, s.selectedImage)
  THEN [s EXCEPT !.img[s.selectedImage].attrW = s.img[s.selectedImage].height,
                 !.img[s.selectedImage].attrH = s.img[s.selectedImage].width]
  ELSE s

updateImageBlotDimensions(s) ==
  IF s.selectedImage = NoImage THEN s
  ELSE IF InDoc(s, s.selectedImage)
  THEN [s EXCEPT !.img[s.selectedImage].attrW = s.img[s.selectedImage].width,
                 !.img[s.selectedImage].attrH = s.img[s.selectedImage].height]
  ELSE s

\* the closure created by one run of onMouseDownResize; downY is the clientY
\* of the mousedown, which the closure does not keep (line 125), and downImg
\* the image that was selected at the mousedown, which it does not keep either
Session(id, downImg, startX, downY, startWidth, startHeight, initialDisplay) ==
  [id |-> id, downImg |-> downImg, startX |-> startX, downY |-> downY,
   startWidth |-> startWidth,
   startHeight |-> startHeight, initialDisplay |-> initialDisplay,
   aspectRatio |-> Div(startHeight, startWidth)]

SessionIds(s) == {s.docL[k].id : k \in 1..Len(s.docL)}

\* onMouseDownResize with the aspect ratio of the image as it was loaded
onMouseDownResize_LoadRatio(s, x, y) ==
  IF s.selectedImage = NoImage THEN s
  ELSE LET i == s.selectedImage
           id == CHOOSE n \in 1..(Len(s.docL) + 1) : n \notin SessionIds(s)
           c == Session(id, i, x, y, s.img[i].width, s.img[i].height,
                        s.img[i].display)
           r == Div(LoadHeight[i], LoadWidth[i])
       IN [s EXCEPT !.isResizing = TRUE,
                    !.docL = Append(@, [c EXCEPT !.aspectRatio = r])]

onMouseDownResize(s, x, y) ==
  IF s.selectedImage = NoImage THEN s
  ELSE LET i == s.selectedImage
           id == CHOOSE n \in 1..(Len(s.docL) + 1) : n \notin SessionIds(s)
           c == Session(id, i, x, y, s.img[i].width, s.img[i].height,
                        s.img[i].display)
       IN [s EXCEPT !.isResizing = TRUE, !.docL = Append(@, c)]

\* the width and the height that lines 139-146 compute
NewWidth(c, x) ==
  LET deltaX == x - c.startX
      newWidth == Max(MinDim, c.startWidth + deltaX)
  IN IF newWidth < MinDim THEN MinDim ELSE newWidth

NewHeight(c, x) ==
  LET newHeight == Mul(NewWidth(c, x), c.aspectRatio)
  IN IF Lt(newHeight, MinDim) THEN Int2Num(MinDim) ELSE newHeight

onMouseMove(s, c, x, y) ==
  IF s.selectedImage = NoImage THEN [s EXCEPT !.threw = TRUE]
  ELSE LET i == s.selectedImage
           w == Int2Num(NewWidth(c, x))
           h == NewHeight(c, x)
           s1 == [s EXCEPT !.img[i].width = ToUint32(w),
                           !.img[i].attrW = ToUint32(w),
                           !.img[i].height = ToUint32(h),
                           !.img[i].attrH = ToUint32(h),
                           !.writes = Append(@, [img |-> i, downImg |-> c.downImg,
                                                 w |-> w, h |-> h,
                                                 deltaX |-> x - c.startX,
                                                 deltaY |-> y - c.downY,
                                                 startWidth |-> c.startWidth,
                                                 startHeight |-> c.startHeight])]
       IN updateOverlayPosition(s1)

\* document.removeEventListener for the two listeners of closure c
Detach(l, c) == SelectSeq(l, LAMBDA e : e.id # c.id)

onMouseUp(s, c) ==
  LET s1 == [s EXCEPT !.docL = Detach(@, c)]
  IN IF s1.selectedImage = NoImage THEN [s1 EXCEPT !.threw = TRUE]
     ELSE LET s2 == [s1 EXCEPT !.img[s1.selectedImage].display = c.initialDisplay]
              s3 == [updateImageBlotDimensions(s2) EXCEPT !.isResizing = FALSE]
          IN IF s3.selectedImage # NoImage THEN updateOverlayPosition(s3) ELSE s3

RECURSIVE DispatchMove(_, _, _, _)
\* a 'mousemove' on document runs every onMouseMove attached when it is
\* dispatched, in the order they were attached
DispatchMove(s, ls, x, y) ==
  IF ls = <<>> THEN s
  ELSE DispatchMove(onMouseMove(s, Head(ls), x, y), Tail(ls), x, y)

RECURSIVE DispatchUp(_, _)
\* a 'mouseup' on document likewise; an exception in one listener is
\* reported and the next listener still runs
DispatchUp(s, ls) ==
  IF ls = <<>> THEN s
  ELSE DispatchUp(onMouseUp(s, Head(ls)), Tail(ls))

\* destroy whose removeOverlay removes this.overlay without testing it
destroy_Unchecked(s) ==
  IF s.overlay = Null THEN [s EXCEPT !.threw = TRUE]
  ELSE [removeOverlay(s) EXCEPT
          !.listeners = [click |-> FALSE, scroll |-> FALSE,
                         blur |-> FALSE, textChange |-> FALSE]]

destroy(s) ==
  [removeOverlay(s) EXCEPT
     !.listeners = [click |-> FALSE, scroll |-> FALSE,
                    blur |-> FALSE, textChange |-> FALSE]]

\* ------------------------------------------------------------- actions
\* The successor state is the record s.  last records the event: its name,
\* the image it was aimed at, what held before it (this.selectedImage, whether
\* that image was in the document, the number of closure pairs on document,
\* whether the root still had its click listener), and what its listeners did.
Becomes(s, ev, i) ==
  /\ overlay' = s.overlay
  /\ selectedImage' = s.selectedImage
  /\ resizerHandle' = s.resizerHandle
  /\ deleteButton' = s.deleteButton
  /\ isResizing' = s.isResizing
  /\ domOverlays' = s.domOverlays
  /\ ovStyle' = s.ovStyle
  /\ mousedownL' = s.mousedownL
  /\ clickL' = s.clickL
  /\ docL' = s.docL
  /\ listeners' = s.listeners
  /\ img' = s.img
  /\ doc' = s.doc
  /\ scrollTop' = s.scrollTop
  /\ options' = options
  /\ selSize' = IF selSize = NotRecorded THEN NotRecorded
                ELSE IF s.selectedImage = NoImage THEN NoSize
                ELSE IF s.selectedImage # selectedImage
                THEN <<img[s.selectedImage].width, img[s.selectedImage].height>>
                ELSE selSize
  /\ downs' = IF ev = "mousedown" THEN downs + 1 ELSE downs
  /\ last' = [ev |-> ev, img |-> i, sel |-> selectedImage,
              mapped |-> selectedImage # NoImage /\ InDoc(St, selectedImage),
              sessions |-> Len(docL), live |-> listeners.click,
              threw |-> s.threw, writes |-> s.writes, created |-> s.created]

\* the state after construction, but for the images and the options
Constructed ==
  /\ overlay = Null
  /\ selectedImage = NoImage
  /\ resizerHandle = Null
  /\ deleteButton = Null
  /\ isResizing = FALSE
  /\ domOverlays = {}
  /\ ovStyle = NoStyle
  /\ mousedownL = {}
  /\ clickL = {}
  /\ docL = <<>>
  /\ listeners = [click |-> TRUE, scroll |-> TRUE,
                  blur |-> TRUE, textChange |-> TRUE]
  /\ doc = InitDoc
  /\ scrollTop = 0
  /\ downs = 0
  /\ last = [ev |-> "construct", img |-> NoImage, sel |-> NoImage,
             mapped |-> FALSE, sessions |-> 0, live |-> TRUE,
             threw |-> FALSE, writes |-> <<>>, created |-> 0]

\* an image element loaded with width w, height h and display style d
Image(w, h, d) ==
  [width |-> w, height |-> h, attrW |-> w, attrH |-> h,
   display |-> d, draggable |-> "absent"]

\* a document of two images of ordinary size, the default options
Init ==
  /\ Constructed
  /\ img = [i \in Images |-> Image(LoadWidth[i], LoadHeight[i], LoadDisplay[i])]
  /\ options = [keepAspectRatio |-> TRUE]
  /\ selSize = NotRecorded

\* any load sizes, any value of the option
InitSizes ==
  /\ Constructed
  /\ \E sa \in LoadSizes :
       img = [i \in Images |->
                IF i = "A" THEN Image(sa[1], sa[2], LoadDisplay[i])
                ELSE Image(LoadWidth[i], LoadHeight[i], LoadDisplay[i])]
  /\ \E k \in BOOLEAN : options = [keepAspectRatio |-> k]
  /\ selSize = NoSize

\* a click on an image of the document
ClickImage ==
  \E i \in Images :
    /\ InDoc(St, i)
    /\ Becomes(IF listeners.click THEN handleEditorClick(St, i) ELSE St,
               "clickImage", i)

\* a click on any other element of the root
ClickOther ==
  Becomes(IF listeners.click THEN handleEditorClick(St, "other") ELSE St,
          "clickOther", NoImage)

\* the root is scrolled
Scroll ==
  \E t \in ScrollTops :
    /\ t # scrollTop
    /\ LET s == [St EXCEPT !.scrollTop = t]
       IN Becomes(IF listeners.scroll THEN updateOverlayPosition(s) ELSE s,
                  "scroll", NoImage)

\* quill emits 'editor-blur'
Blur ==
  Becomes(IF listeners.blur THEN removeOverlay(St) ELSE St, "blur", NoImage)

\* quill emits 'text-change' for an edit that is none of the module's
TextChange ==
  Becomes(EmitTextChange(St), "textChange", NoImage)

\* another actor deletes an image through the editor
ExternalRemove ==
  \E i \in Removable :
    /\ InDoc(St, i)
    /\ Becomes(deleteText(St, Pos(St, i) - 1, 1), "externalRemove", i)

\* 'mousedown' on the handle of the overlay in the document
MouseDownHandle ==
  \E x \in DownXs, y \in DownYs :
    /\ resizerHandle # Null
    /\ resizerHandle \in domOverlays
    /\ resizerHandle \in mousedownL
    /\ downs < MaxDowns
    /\ Becomes(onMouseDownResize(St, x, y), "mousedown", NoImage)

\* 'mousemove' on document
MouseMove ==
  \E x \in MoveXs, y \in MoveYs :
    /\ \A k \in 1..Len(docL) : docL[k].startWidth + x - docL[k].startX <= MaxDim
    /\ Becomes(DispatchMove(St, docL, x, y), "mousemove", NoImage)

\* 'mouseup' on document
MouseUp ==
  Becomes(DispatchUp(St, docL), "mouseup", NoImage)

\* 'click' on the delete button of the overlay in the document
DeleteClick ==
  /\ deleteButton # Null
  /\ deleteButton \in domOverlays
  /\ deleteButton \in clickL
  /\ Becomes(deleteImage(St), "delete", NoImage)

Destroy ==
  Becomes(destroy(St), "destroy", NoImage)

Next ==
  \/ ClickImage
  \/ ClickOther
  \/ Scroll
  \/ Blur
  \/ TextChange
  \/ ExternalRemove
  \/ MouseDownHandle
  \/ MouseMove
  \/ MouseUp
  \/ DeleteClick
  \/ Destroy

Spec == Init /\ [][Next]_vars

\* the events of a drag, on images of any load size
NextSizes ==
  \/ ClickImage
  \/ MouseDownHandle
  \/ MouseMove
  \/ MouseUp

SpecSizes == InitSizes /\ [][NextSizes]_vars

\* ------------------------------------------------------------- claims
\* the style updateOverlayPosition gives the overlay for image i now
Aligned(i) ==
  LET rect == ImgRect(St, i)
  IN ovStyle = [top |-> Px(rect.top - ContainerRect.top),
                left |-> Px(rect.left - ContainerRect.left),
                width |-> Px(rect.width), height |-> Px(rect.height)]

Deselected ==
  /\ domOverlays = {}
  /\ overlay = Null
  /\ resizerHandle = Null
  /\ deleteButton = Null
  /\ mousedownL = {}
  /\ clickL = {}
  /\ selectedImage = NoImage

\* C1: between event handlers, an overlay exists (the field is set, and an
\* overlay element is in the document) exactly when an image is selected.
C1_OverlayIffSelected ==
  /\ overlay # Null <=> selectedImage # NoImage
  /\ domOverlays # {} <=> selectedImage # NoImage
  /\ overlay # Null => overlay \in domOverlays

\* an image is selected with its overlay while a drag is under way
C1_Witness ==
  /\ selectedImage # NoImage
  /\ overlay \in domOverlays
  /\ docL # <<>>

\* C2: the document never holds more than one overlay, and a click on an
\* image that the controller hears leaves exactly one overlay, which is the
\* controller's, is aligned with the clicked image, and the clicked image is
\* the selection.
C2_OneOverlay ==
  /\ Cardinality(domOverlays) <= 1
  /\ (last.ev = "clickImage" /\ listeners.click) =>
        /\ selectedImage = last.img
        /\ overlay # Null
        /\ domOverlays = {overlay}
        /\ Aligned(last.img)

\* B was clicked while A was selected
C2_Witness ==
  /\ last.ev = "clickImage"
  /\ last.sel = "A"
  /\ last.img = "B"
  /\ selectedImage = "B"
  /\ Cardinality(domOverlays) = 1

\* C3: after an editor blur, a click in the root on a non-image target, or a
\* click on the delete button, there is no overlay in the document, no
\* handle, no delete button, none of their listeners, and no selection.
C3_DeselectClears ==
  last.ev \in {"blur", "clickOther", "delete"} => Deselected

\* the delete button was clicked during a drag
C3_Witness ==
  /\ last.ev = "delete"
  /\ last.sel # NoImage
  /\ last.sessions > 0
  /\ isResizing
  /\ Deselected

\* C4: a text-change emitted while the closures of a drag are on document
\* changes neither the selection nor the overlay, its handle, its delete
\* button, or their listeners.
C4_TextChangeDuringResize ==
  [][(last'.ev \in {"textChange", "externalRemove"} /\ docL # <<>>) =>
       UNCHANGED <<selectedImage, overlay, resizerHandle, deleteButton,
                   domOverlays, ovStyle, mousedownL, clickL>>]_vars

\* a text-change arrived during a drag and the image is still selected
C4_Witness ==
  /\ last.ev = "textChange"
  /\ last.sessions > 0
  /\ docL # <<>>
  /\ selectedImage # NoImage
  /\ overlay \in domOverlays
  /\ resizerHandle # Null
  /\ deleteButton # Null

\* C5: a text-change emitted while no closure of a drag is on document leaves
\* no selection and no overlay, whatever happened before.
C5_IdleTextChangeDeselects ==
  (last.ev = "textChange" /\ docL = <<>>) =>
    (selectedImage = NoImage /\ overlay = Null /\ domOverlays = {})

\* C6: at most one onMouseMove/onMouseUp pair is on document.
C6_OneSession == Len(docL) <= 1

\* C7: after a mouseup that was delivered to the closures of a drag, none of
\* them is on document and isResizing is false.
C7_PointerUpIdle ==
  (last.ev = "mouseup" /\ last.sessions > 0) => (docL = <<>> /\ ~isResizing)

\* C8: when a blur, a click outside, a click on the delete button or
\* destroy() deselects the image during a drag, no onMouseMove/onMouseUp is
\* left on document.
C8_AbortDetaches ==
  (/\ last.ev \in {"blur", "clickOther", "delete", "destroy"}
   /\ last.sessions > 0
   /\ last.sel # NoImage
   /\ selectedImage = NoImage) => docL = <<>>

\* C9: no listener of any event raises an exception.
C9_NoThrow == ~last.threw

\* what C10 says of one assignment of lines 148-149
RatioKept(wr) ==
  /\ wr.h.k = "fin"
  /\ wr.h.n * wr.w.d * wr.startWidth = wr.startHeight * wr.w.n * wr.h.d

WidthFloored(wr) == wr.startWidth + wr.deltaX < MinDim

HeightFloored(wr) ==
  Max(MinDim, wr.startWidth + wr.deltaX) * wr.startHeight < MinDim * wr.startWidth

\* C10: every width w and height h that a mousemove assigns has
\* h / w = startHeight / startWidth; w = startWidth + deltaX when neither is
\* floored; a floored height is 10 exactly, and a floored width is 10 exactly
\* unless the height is floored too.
C10_AspectKept ==
  \A k \in 1..Len(last.writes) :
    LET wr == last.writes[k]
    IN /\ RatioKept(wr)
       /\ (~WidthFloored(wr) /\ ~HeightFloored(wr)) =>
             wr.w = Int2Num(wr.startWidth + wr.deltaX)
       /\ HeightFloored(wr) => wr.h = Int2Num(MinDim)
       /\ (WidthFloored(wr) /\ ~HeightFloored(wr)) => wr.w = Int2Num(MinDim)

FloorKept(x) == x.k = "fin" /\ x.n >= MinDim * x.d

\* C11: every width and every height a mousemove assigns is a finite number
\* that is at least 10, whatever size the image had at the mousedown.
C11_FloorKept ==
  \A k \in 1..Len(last.writes) :
    FloorKept(last.writes[k].w) /\ FloorKept(last.writes[k].h)

\* C12: when the option keepAspectRatio is false, the width a mousemove
\* assigns is max(10, startWidth + deltaX) and the height is
\* max(10, startHeight + deltaY).
C12_Independent ==
  ~options.keepAspectRatio =>
    \A k \in 1..Len(last.writes) :
      LET wr == last.writes[k]
      IN /\ wr.w = Int2Num(Max(MinDim, wr.startWidth + wr.deltaX))
         /\ wr.h = Int2Num(Max(MinDim, wr.startHeight + wr.deltaY))

\* the document d without its item at position p
WithoutItem(d, p) ==
  [k \in 1..(Len(d) - 1) |-> IF k < p THEN d[k] ELSE d[k + 1]]

Sizes == [i \in Images |-> <<img[i].width, img[i].height>>]

\* C13: a click on the delete button while the selected image is in the
\* document removes that one item from the document and nothing else, changes
\* no image's size, and leaves no overlay and no selection; also during a
\* drag, when the text-change of the deletion is not acted on.
C13_DeleteRemovesImage ==
  [][(last'.ev = "delete" /\ selectedImage # NoImage /\ InDoc(St, selectedImage)) =>
       /\ doc' = WithoutItem(doc, Pos(St, selectedImage))
       /\ Sizes' = Sizes
       /\ ~last'.threw
       /\ Deselected']_vars

\* the delete button removed the selected image, here during a drag
C13_Witness ==
  /\ last.ev = "delete"
  /\ last.mapped
  /\ ~InDoc(St, last.sel)
  /\ last.sessions > 0
  /\ Deselected

\* C14: a click on the delete button while the selected image is no longer
\* in the document leaves the document as it is, raises nothing, and leaves
\* no overlay and no selection.
C14_DeleteUnmapped ==
  [][(last'.ev = "delete" /\ selectedImage # NoImage /\ ~InDoc(St, selectedImage)) =>
       /\ doc' = doc
       /\ Sizes' = Sizes
       /\ ~last'.threw
       /\ Deselected']_vars

\* the delete button was clicked for an image another actor had removed
C14_Witness ==
  /\ last.ev = "delete"
  /\ last.sel # NoImage
  /\ ~last.mapped
  /\ ~last.threw
  /\ doc # InitDoc
  /\ Deselected

\* destroy() has been called, now or before the last event
Destroyed == last.ev = "destroy" \/ ~last.live

\* C15: once destroy() has been called there is no overlay, no selection,
\* and no listener of the controller anywhere: not on the root, not on quill,
\* not on a handle or a delete button, not on document.
C15_DestroyDetachesAll ==
  Destroyed =>
    /\ Deselected
    /\ listeners = [click |-> FALSE, scroll |-> FALSE,
                    blur |-> FALSE, textChange |-> FALSE]
    /\ docL = <<>>

\* C16: in every state destroy() after destroy() gives what destroy() gives,
\* and no call of destroy() raises an exception.
C16_DestroyIdempotent ==
  /\ destroy(destroy(St)) = destroy(St)
  /\ ~destroy(destroy(St)).threw
  /\ last.ev = "destroy" => ~last.threw

\* destroy() was called on a controller that was destroyed already
C16_Witness ==
  /\ last.ev = "destroy"
  /\ ~last.live
  /\ ~last.threw
  /\ Deselected

\* C17: after a mouseup that ended a drag with an image selected and in the
\* document, the width and height attributes of the image (what the document
\* serializes) are the width and height the image has.
C17_PersistedSize ==
  (/\ last.ev = "mouseup"
   /\ last.sessions > 0
   /\ selectedImage # NoImage
   /\ InDoc(St, selectedImage)) =>
    /\ img[selectedImage].attrW = img[selectedImage].width
    /\ img[selectedImage].attrH = img[selectedImage].height

\* a drag that resized the selected image has ended
C17_Witness ==
  /\ last.ev = "mouseup"
  /\ last.sessions > 0
  /\ selectedImage # NoImage
  /\ selectedImage = last.sel
  /\ InDoc(St, selectedImage)
  /\ img[selectedImage].width # LoadWidth[selectedImage]
  /\ img[selectedImage].width # img[selectedImage].height
  /\ img[selectedImage].attrW = img[selectedImage].width

\* C18: right after a click selected an image, after a scroll of the root,
\* and after a mousemove of a drag, the overlay of a selected image has the
\* top and left of the image's rectangle less the root's, and the image's
\* width and height.
C18_OverlayAligned ==
  (/\ selectedImage # NoImage
   /\ \/ last.ev \in {"clickImage", "scroll"}
      \/ last.ev = "mousemove" /\ last.sessions > 0) =>
    Aligned(selectedImage)

\* a mousemove resized the selected image while the root is scrolled
C18_Witness ==
  /\ last.ev = "mousemove"
  /\ last.writes # <<>>
  /\ scrollTop # 0
  /\ selectedImage = "B"
  /\ InDoc(St, "A")
  /\ Aligned(selectedImage)

\* the closure of the latest mousedown
Newest == docL[Len(docL)]

C20_ReselectIdempotent ==
  [][(/\ last'.ev = "clickImage"
      /\ listeners.click
      /\ selectedImage # NoImage
      /\ last'.img = selectedImage) =>
       /\ UNCHANGED <<selectedImage, overlay, resizerHandle, deleteButton,
                      domOverlays, mousedownL, clickL, isResizing, docL,
                      img, doc, listeners>>
       /\ last'.created = 0
       /\ ~last'.threw
       /\ Aligned(selectedImage)']_vars

\* the selected image was clicked during a drag
C20_Witness ==
  /\ last.ev = "clickImage"
  /\ last.sel # NoImage
  /\ last.img = last.sel
  /\ selectedImage = last.sel
  /\ last.sessions > 0
  /\ isResizing
  /\ docL # <<>>

\* what the controller holds and what it has attached
Controller ==
  <<overlay, selectedImage, resizerHandle, deleteButton, isResizing,
    domOverlays, ovStyle, mousedownL, clickL, docL, listeners>>

\* C21: with no image selected and no drag in progress (the flag is false or
\* no closure is on document), a scroll, an editor-blur, a text-change and a
\* click on something that is not an image change nothing of the controller,
\* of the document or of any image, and raise nothing.
C21_IdleNoOps ==
  [][(/\ last'.ev \in {"scroll", "blur", "textChange", "clickOther"}
      /\ selectedImage = NoImage
      /\ ~isResizing \/ docL = <<>>) =>
       /\ UNCHANGED <<Controller, img, doc>>
       /\ ~last'.threw]_vars

\* an editor-blur reached a live controller that has nothing selected and no
\* drag in progress, after an image was resized and another removed
C21_Witness ==
  /\ last.ev = "blur"
  /\ last.live
  /\ last.sel = NoImage
  /\ last.sessions = 0
  /\ ~isResizing
  /\ ~last.threw
  /\ img["B"].width # LoadWidth["B"]
  /\ doc # InitDoc

\* C22: every width and height a mousemove assigns goes to the image that
\* was selected at the mousedown of the closure that assigns it.
C22_OwnImageOnly ==
  \A k \in 1..Len(last.writes) :
    last.writes[k].img = last.writes[k].downImg

\* C23: isResizing is true exactly when a closure pair is on document, and
\* when isResizing is true an image is selected.
C23_FlagMatchesSession ==
  /\ isResizing <=> docL # <<>>
  /\ isResizing => selectedImage # NoImage

\* C24: when no closure pair is on document, every image has the inline
\* display style it had before the first mousedown on its handle.
C24_DisplayRestored ==
  docL = <<>> => \A i \in Images : img[i].display = LoadDisplay[i]

====
